---- MODULE Spec2Model ----
(***************************************************************************)
(* Model of osquery/core/windows/wmi.cpp: the WmiResultItem wrapper (move, *)
(* destruction, typed getters) and the WmiRequest wrapper (construction    *)
(* through CoInitializeSecurity / CoCreateInstance / ConnectServer /       *)
(* ExecQuery / the Next loop, move construction, destruction).             *)
(*                                                                         *)
(* External COM objects are named <<owner, kind, index>>; the model counts *)
(* every Release() call made on each of them.                              *)
(***************************************************************************)
EXTENDS Integers, Sequences, FiniteSets, TLC

VARIABLES req, hist, ctor, pc, hr, items, acquired, released, call, crashed

vars == <<req, hist, ctor, pc, hr, items, acquired, released, call, crashed>>

(* ------------------------------ bounds --------------------------------- *)

\* number of WmiRequest objects the caller may create
MaxReq == 2
\* number of enum_->Next calls after which the enumerator stops returning S_OK
MaxPulls == 3
\* number of WmiResultItem objects the caller may create outside a request
MaxItems == 2
\* largest element count of a string array property
MaxLen == 2

Req == 1..MaxReq
Item == 1..MaxItems

(* --------------------------- HRESULT values ---------------------------- *)

S_OK == 0
WBEM_S_NO_ERROR == 0
WBEM_S_FALSE == 1
E_FAIL == -1

SUCCEEDED(h) == h >= 0

\* outcomes of CoInitializeSecurity / CoCreateInstance / ConnectServer / ExecQuery
CallResults == {S_OK, E_FAIL}

(* ------------------------------ handles -------------------------------- *)

Null == <<0, "null", 0>>

LocatorOf(r) == <<r, "locator", 0>>
ServiceOf(r) == <<r, "service", 0>>
EnumOf(r) == <<r, "enum", 0>>
ObjectOf(r, k) == <<r, "object", k>>
ItemObjectOf(i) == <<i, "itemobject", 0>>

Objects ==
  {LocatorOf(r) : r \in Req} \cup {ServiceOf(r) : r \in Req}
    \cup {EnumOf(r) : r \in Req}
    \cup {ObjectOf(r, k) : r \in Req, k \in 1..MaxPulls}
    \cup {ItemObjectOf(i) : i \in Item}

(* ------------------------------ Status --------------------------------- *)

Status(c, m) == [code |-> c, msg |-> m]

\* Status(0)
StatusOk == Status(0, "OK")

\* the value of a status_ member no statement of the constructor has assigned
StatusUnset == Status(1, "unset")

(* --------------------------- WmiResultItem ----------------------------- *)

\* WmiResultItem(IWbemClassObject* result): takes the reference it is given
ItemOf(obj) == [result_ |-> obj]

\* a move constructor that copies the handle and leaves it in the source
ItemMoveCtorKeepsSource(src) ==
  [dst |-> [result_ |-> src.result_], src |-> [result_ |-> src.result_]]

\* a move constructor without the swap: the new item stays empty
ItemMoveCtorWithoutSwap(src) ==
  [dst |-> [result_ |-> Null], src |-> [result_ |-> src.result_]]

\* WmiResultItem(WmiResultItem&& src): result_ = nullptr; swap(result_, src.result_)
ItemMoveCtor(src) ==
  LET start == [result_ |-> Null]
  IN  [dst |-> [result_ |-> src.result_], src |-> [result_ |-> start.result_]]

\* ~WmiResultItem(): the Release() calls it makes, in order
ItemDtor(it) == IF it.result_ # Null THEN <<it.result_>> ELSE <<>>

RECURSIVE Relocate(_)
\* the vector grows: every element is move-constructed into the new storage and
\* the element it was moved from is destroyed
Relocate(results) ==
  IF results = <<>> THEN [results |-> <<>>, rel |-> <<>>]
  ELSE LET mv == ItemMoveCtor(Head(results))
           rest == Relocate(Tail(results))
       IN  [results |-> <<mv.dst>> \o rest.results,
            rel |-> ItemDtor(mv.src) \o rest.rel]

\* an insertion at the front instead of the back
PushBackPrepends(results, obj) ==
  LET temp == ItemOf(obj)
      grown == Relocate(results)
      mv == ItemMoveCtor(temp)
  IN  [results |-> <<mv.dst>> \o grown.results,
       rel |-> grown.rel \o ItemDtor(mv.src)]

\* results_.push_back(WmiResultItem(result)): the storage grows, the temporary
\* is moved into the new element and then destroyed
PushBack(results, obj) ==
  LET temp == ItemOf(obj)
      grown == Relocate(results)
      mv == ItemMoveCtor(temp)
  IN  [results |-> Append(grown.results, mv.dst),
       rel |-> grown.rel \o ItemDtor(mv.src)]

RECURSIVE ClearResults(_)
\* results_.clear(): destroys every element, first to last
ClearResults(results) ==
  IF results = <<>> THEN <<>>
  ELSE ItemDtor(Head(results)) \o ClearResults(Tail(results))

(* ----------------------------- WmiRequest ------------------------------ *)

\* the members before the constructor body runs
NullRequest ==
  [st |-> "ctor", locator_ |-> Null, services_ |-> Null, enum_ |-> Null,
   results_ |-> <<>>, status_ |-> StatusUnset]

Unborn == [NullRequest EXCEPT !.st = "unborn"]

\* what is recorded about each request: the stages its constructor ran, the
\* answer of CoInitializeSecurity, the answers of enum_->Next, the request it was
\* move-constructed from (0: none) and that request's members as the move
\* constructor found them, whether it was moved from, its members as its
\* destructor found them, and the Release() calls of its destructor
NoHist ==
  [stages |-> <<>>, sec |-> S_OK, pulled |-> <<>>, from |-> 0, given |-> Unborn,
   moved |-> FALSE, last |-> Unborn, dtor |-> <<>>]

\* the condition under which the loop body appends the pulled object
Delivered(h, count) == SUCCEEDED(h) /\ count > 0

\* what enum_->Next can answer on the n-th call: an object comes only with a
\* success code, and the enumerator stops answering S_OK after MaxPulls calls
PullOutcomes(r, n) ==
  {[hr |-> h, count |-> c, obj |-> IF c > 0 THEN ObjectOf(r, n) ELSE Null] :
     h \in {WBEM_S_NO_ERROR, WBEM_S_FALSE}, c \in {0, 1}}
    \cup {[hr |-> E_FAIL, count |-> 0, obj |-> Null]}

RECURSIVE CountIn(_, _)
CountIn(seq, x) ==
  IF seq = <<>> THEN 0
  ELSE (IF Head(seq) = x THEN 1 ELSE 0) + CountIn(Tail(seq), x)

\* the reference counts after the Release() calls of rel
Released(rel) == [o \in Objects |-> released[o] + CountIn(rel, o)]

Idle == ctor = 0 /\ ~crashed

\* a failure that leaves the if-block without returning: control reaches the
\* statements after the loop
AfterStageFallsThrough(h, next) == IF h # S_OK THEN "Drain" ELSE next

\* a failure that is not checked at all
AfterStageIgnoresFailure(h, next) == next

\* the next stage after a setup call answered h: a failure returns
AfterStage(h, next) == IF h # S_OK THEN "Return" ELSE next

\* the stage and the HRESULT it ended with are recorded
Log(r, stage, h) == [hist EXCEPT ![r].stages = Append(@, <<stage, h>>)]

\* WmiRequest(query, nspace) is entered: HRESULT hr = E_FAIL
Construct(r) ==
  /\ Idle
  /\ \A q \in Req : req[q].st = "unborn"
  /\ req' = [req EXCEPT ![r] = NullRequest]
  /\ ctor' = r
  /\ pc' = "SecurityInit"
  /\ hr' = E_FAIL
  /\ UNCHANGED <<hist, items, acquired, released, call, crashed>>

\* a constructor that returns when CoInitializeSecurity fails
AfterSecurityInitChecked(h) == IF h # S_OK THEN "Return" ELSE "Connect"

\* the statement after hr = ::CoInitializeSecurity(...) is the CoCreateInstance
\* call: no statement reads hr in between
AfterSecurityInit(h) == "Connect"

\* hr = ::CoInitializeSecurity(...): the result is overwritten unread
SecurityInit ==
  /\ ctor # 0 /\ pc = "SecurityInit"
  /\ \E h \in CallResults :
       /\ hr' = h
       /\ hist' = [Log(ctor, "SecurityInit", h) EXCEPT ![ctor].sec = h]
       /\ pc' = AfterSecurityInit(h)
  /\ UNCHANGED <<req, ctor, items, acquired, released, call, crashed>>

\* hr = ::CoCreateInstance(CLSID_WbemLocator, ..., &locator_)
Connect ==
  /\ ctor # 0 /\ pc = "Connect"
  /\ \E h \in CallResults :
       /\ hr' = h
       /\ req' = [req EXCEPT ![ctor].locator_ =
                    IF h # S_OK THEN Null ELSE LocatorOf(ctor)]
       /\ acquired' = IF h = S_OK THEN acquired \cup {LocatorOf(ctor)} ELSE acquired
       /\ pc' = AfterStage(h, "Bind")
       /\ hist' = Log(ctor, "Connect", h)
  /\ UNCHANGED <<ctor, items, released, call, crashed>>

\* hr = locator_->ConnectServer(nspace, ..., &services_)
Bind ==
  /\ ctor # 0 /\ pc = "Bind"
  /\ \E h \in CallResults :
       /\ hr' = h
       /\ req' = [req EXCEPT ![ctor].services_ =
                    IF h # S_OK THEN Null ELSE ServiceOf(ctor)]
       /\ acquired' = IF h = S_OK THEN acquired \cup {ServiceOf(ctor)} ELSE acquired
       /\ pc' = AfterStage(h, "Execute")
       /\ hist' = Log(ctor, "Bind", h)
  /\ UNCHANGED <<ctor, items, released, call, crashed>>

\* hr = services_->ExecQuery(L"WQL", wql, WBEM_FLAG_FORWARD_ONLY, nullptr, &enum_)
\* and, on success, hr = WBEM_S_NO_ERROR before the loop
Execute ==
  /\ ctor # 0 /\ pc = "Execute"
  /\ \E h \in CallResults :
       /\ hr' = IF h # S_OK THEN h ELSE WBEM_S_NO_ERROR
       /\ req' = [req EXCEPT ![ctor].enum_ =
                    IF h # S_OK THEN Null ELSE EnumOf(ctor)]
       /\ acquired' = IF h = S_OK THEN acquired \cup {EnumOf(ctor)} ELSE acquired
       /\ pc' = AfterStage(h, "Drain")
       /\ hist' = Log(ctor, "Execute", h)
  /\ UNCHANGED <<ctor, items, released, call, crashed>>

\* a loop that goes on after every success code, WBEM_S_FALSE included
LoopContinuesOnSuccessCode(h) == SUCCEEDED(h)

\* the loop condition: while (hr == WBEM_S_NO_ERROR)
LoopContinues(h) == h = WBEM_S_NO_ERROR

\* one iteration of the loop: hr = enum_->Next(WBEM_INFINITE, 1, &result,
\* &result_count); if (SUCCEEDED(hr) && result_count > 0) push_back
Pull ==
  /\ ctor # 0 /\ pc = "Drain"
  /\ LoopContinues(hr)
  /\ LET n == Len(hist[ctor].pulled) + 1
     IN  \E out \in PullOutcomes(ctor, n) :
           /\ n >= MaxPulls => out.hr # WBEM_S_NO_ERROR
           /\ hr' = out.hr
           /\ hist' = [hist EXCEPT
                         ![ctor].pulled = Append(@, out),
                         ![ctor].stages = IF n = 1 THEN Append(@, <<"Drain", hr>>) ELSE @]
           /\ acquired' = IF out.obj # Null THEN acquired \cup {out.obj} ELSE acquired
           /\ IF Delivered(out.hr, out.count)
                THEN LET pb == PushBack(req[ctor].results_, out.obj)
                     IN  /\ req' = [req EXCEPT ![ctor].results_ = pb.results]
                         /\ released' = Released(pb.rel)
                ELSE UNCHANGED <<req, released>>
  /\ UNCHANGED <<ctor, pc, items, call, crashed>>

\* a final status that reports the HRESULT the loop ended with
FinalStatusOfHr(h) == IF SUCCEEDED(h) THEN StatusOk ELSE Status(1, "enumeration failed")

\* a final status that is success only when the enumerator reported its end
FinalStatusOnExhaustion(h) == IF h = WBEM_S_FALSE THEN StatusOk ELSE StatusUnset

\* status_ = Status(0), whatever the last HRESULT was
FinalStatus(h) == StatusOk

\* the loop is left: status_ = Status(0), and the constructor ends
Finish ==
  /\ ctor # 0 /\ pc = "Drain"
  /\ ~LoopContinues(hr)
  /\ req' = [req EXCEPT ![ctor].status_ = FinalStatus(hr), ![ctor].st = "live"]
  /\ ctor' = 0
  /\ pc' = "Idle"
  /\ UNCHANGED <<hist, hr, items, acquired, released, call, crashed>>

\* return after a failed CoCreateInstance, ConnectServer or ExecQuery
Return ==
  /\ ctor # 0 /\ pc = "Return"
  /\ req' = [req EXCEPT ![ctor].st = "live"]
  /\ ctor' = 0
  /\ pc' = "Idle"
  /\ UNCHANGED <<hist, hr, items, acquired, released, call, crashed>>

\* WmiRequest(WmiRequest&& src): the three handles are swapped out of src into
\* members set to nullptr; no other member is named, so results_ and status_
\* of the new object are default-constructed and those of src stay
RequestMoveCtor(src) ==
  LET start == [NullRequest EXCEPT !.st = "live"]
  IN  [dst |-> [start EXCEPT !.locator_ = src.locator_,
                             !.services_ = src.services_,
                             !.enum_ = src.enum_],
       src |-> [src EXCEPT !.locator_ = start.locator_,
                           !.services_ = start.services_,
                           !.enum_ = start.enum_]]

MoveConstruct(d, s) ==
  /\ Idle
  /\ req[s].st = "live"
  /\ req[d].st = "unborn"
  /\ LET mv == RequestMoveCtor(req[s])
     IN  req' = [req EXCEPT ![d] = mv.dst, ![s] = mv.src]
  /\ hist' = [hist EXCEPT ![d].from = s, ![d].given = req[s], ![s].moved = TRUE]
  /\ UNCHANGED <<ctor, pc, hr, items, acquired, released, call, crashed>>

\* a destructor that releases the handles in the order they were acquired
RequestDtorAcquisitionOrder(rq) ==
  ClearResults(rq.results_)
    \o (IF rq.locator_ # Null THEN <<rq.locator_>> ELSE <<>>)
    \o (IF rq.services_ # Null THEN <<rq.services_>> ELSE <<>>)
    \o (IF rq.enum_ # Null THEN <<rq.enum_>> ELSE <<>>)

\* ~WmiRequest(): the Release() calls it makes, in order
RequestDtor(rq) ==
  ClearResults(rq.results_)
    \o (IF rq.enum_ # Null THEN <<rq.enum_>> ELSE <<>>)
    \o (IF rq.services_ # Null THEN <<rq.services_>> ELSE <<>>)
    \o (IF rq.locator_ # Null THEN <<rq.locator_>> ELSE <<>>)

Destroy(r) ==
  /\ Idle
  /\ req[r].st = "live"
  /\ LET rel == RequestDtor(req[r])
     IN  /\ released' = Released(rel)
         /\ hist' = [hist EXCEPT ![r].dtor = rel, ![r].last = req[r]]
  /\ req' = [req EXCEPT ![r] = [@ EXCEPT !.st = "dead", !.results_ = <<>>,
                                         !.enum_ = Null, !.services_ = Null,
                                         !.locator_ = Null]]
  /\ UNCHANGED <<ctor, pc, hr, items, acquired, call, crashed>>

(* ---------------------- WmiResultItem objects -------------------------- *)

NoItem == [st |-> "unborn", result_ |-> Null]

\* a WmiResultItem built on an object handed out by the service
ItemNew(i) ==
  /\ Idle
  /\ items[i].st = "unborn"
  /\ items' = [items EXCEPT ![i] = [st |-> "live", result_ |-> ItemOf(ItemObjectOf(i)).result_]]
  /\ acquired' = acquired \cup {ItemObjectOf(i)}
  /\ UNCHANGED <<req, hist, ctor, pc, hr, released, call, crashed>>

ItemMove(d, s) ==
  /\ Idle
  /\ items[s].st = "live"
  /\ items[d].st = "unborn"
  /\ LET mv == ItemMoveCtor(items[s])
     IN  items' = [items EXCEPT ![d] = [st |-> "live", result_ |-> mv.dst.result_],
                                ![s] = [st |-> "live", result_ |-> mv.src.result_]]
  /\ UNCHANGED <<req, hist, ctor, pc, hr, acquired, released, call, crashed>>

ItemDestroy(i) ==
  /\ Idle
  /\ items[i].st = "live"
  /\ released' = Released(ItemDtor(items[i]))
  /\ items' = [items EXCEPT ![i] = [st |-> "dead", result_ |-> Null]]
  /\ UNCHANGED <<req, hist, ctor, pc, hr, acquired, call, crashed>>

(* ----------------------------- VARIANT -------------------------------- *)

\* a wide string (BSTR, std::wstring) with the text s
W(s) == [wide |-> s]

\* bstrToString: the narrow string of a wide string
bstrToString(b) == b.wide

\* a SAFEARRAY of BSTR with one dimension
NoArray == [lbound |-> 0, ubound |-> -1, data |-> <<>>]

ZeroRaw == <<0, 0, 0, 0>>

\* a VARIANT: the type tag vt; raw, the eight bytes of the numeric union members
\* as four 16-bit words, lowest first; bstrVal; parray
Variant(vt, raw, bstr, parray) == [vt |-> vt, raw |-> raw, bstr |-> bstr, parray |-> parray]

VARIANT_TRUE == 65535

NumericTags == {"VT_UI1", "VT_UI2", "VT_UINT", "VT_I4", "VT_UI4", "VT_I8", "VT_UI8"}

\* 0, 1, -1, 256, 65536, 2^31 and 2^32 as 64-bit patterns
RawSamples ==
  {ZeroRaw, <<1, 0, 0, 0>>, <<65535, 65535, 65535, 65535>>, <<256, 0, 0, 0>>,
   <<0, 1, 0, 0>>, <<0, 32768, 0, 0>>, <<0, 0, 1, 0>>}

ArrayOf(lb, n) ==
  [lbound |-> lb, ubound |-> lb + n - 1,
   data |-> [k \in 1..n |-> W("e" \o ToString(k))]]

\* the property values a management object can hold
Variants ==
  {Variant(t, raw, W(""), NoArray) : t \in NumericTags, raw \in RawSamples}
    \cup {Variant("VT_BOOL", <<b, 0, 0, 0>>, W(""), NoArray) : b \in {0, VARIANT_TRUE}}
    \cup {Variant("VT_BSTR", ZeroRaw, W(t), NoArray) : t \in {"", "abc"}}
    \cup {Variant("VT_ARRAY|VT_BSTR", ZeroRaw, W(""), ArrayOf(lb, n)) :
             lb \in {0, 1}, n \in 0..MaxLen}
    \cup {Variant("VT_NULL", ZeroRaw, W(""), NoArray)}

\* the VARIANT value declared and not yet written
Uninit == Variant("uninitialized", ZeroRaw, W(""), NoArray)

\* what result_->Get(name, 0, &value, nullptr, nullptr) can answer: a failure
\* that leaves value unwritten, or S_OK with the property's value
GetOutcomes ==
  {[hr |-> E_FAIL, value |-> Uninit]} \cup {[hr |-> S_OK, value |-> v] : v \in Variants}

\* union members of a VARIANT
boolVal(v) == v.raw[1]
bVal(v) == v.raw[1] % 256
uiVal(v) == v.raw[1]
lVal(v) == <<v.raw[1], v.raw[2]>>

\* a 32-bit signed value converted to a 64-bit integer type
SignExtend(w) ==
  LET s == IF w[2] >= 32768 THEN 65535 ELSE 0 IN <<w[1], w[2], s, s>>

\* a 16-bit unsigned value converted to a 32-bit integer type
ZeroExtend(u) == <<u, 0>>

(* ------------------------------ getters -------------------------------- *)

RetrievalError == Status(-1, "Error retrieving data from WMI query.")
TypeError == Status(-1, "Invalid data type returned.")

\* what a getter call did: the status returned, the output parameter after the
\* call, and ops, the calls and accesses it made in the order of the code:
\*   "Get"           result_->Get(name, 0, &value, nullptr, nullptr)
\*   "vt"            value.vt is read
\*   "read"          a payload member of value (boolVal, lVal, bstrVal, parray) is read
\*   "VariantClear"  VariantClear(&value)
\*   "dt.create"     CoCreateInstance(CLSID_SWbemDateTime, ...) succeeded
\*   "dt.put_Value", "dt.GetFileTime", "dt.Release"   calls on the helper dt
\*   "str.alloc"     GetFileTime handed out filetime_str
\*   "str.read"      _wtoi64(filetime_str)
\*   "SysFreeString" SysFreeString(filetime_str)
\*   "Release"       result_->Release()
\* and the counts of these: VariantClear calls, helpers created and released,
\* strings obtained and freed
Res(status, ret, ops) ==
  [status |-> status, ret |-> ret, ops |-> ops,
   clears |-> CountIn(ops, "VariantClear"),
   helper |-> CountIn(ops, "dt.create"), helperRel |-> CountIn(ops, "dt.Release"),
   bstrs |-> CountIn(ops, "str.alloc"), bstrFree |-> CountIn(ops, "SysFreeString")]

\* the paths the getters share, up to their return
LookupFailed == <<"Get">>
TagRejected == <<"Get", "vt", "VariantClear">>
Converted == <<"Get", "vt", "read", "VariantClear">>

\* a body that converts into ret before it has checked the tag
ScalarGetWritesBeforeCheck(get, ret, vt, converted) ==
  IF get.hr # S_OK THEN Res(RetrievalError, ret, LookupFailed)
  ELSE IF get.value.vt # vt THEN Res(TypeError, converted, TagRejected)
  ELSE Res(StatusOk, converted, Converted)

\* a body that gives up the object when the lookup fails
ScalarGetReleasesObject(get, ret, vt, converted) ==
  IF get.hr # S_OK THEN Res(RetrievalError, ret, <<"Get", "Release">>)
  ELSE IF get.value.vt # vt THEN Res(TypeError, ret, TagRejected)
  ELSE Res(StatusOk, converted, Converted)

\* a body that returns on a tag mismatch without VariantClear
ScalarGetLeaksOnMismatch(get, ret, vt, converted) ==
  IF get.hr # S_OK THEN Res(RetrievalError, ret, LookupFailed)
  ELSE IF get.value.vt # vt THEN Res(TypeError, ret, <<"Get", "vt">>)
  ELSE Res(StatusOk, converted, Converted)

\* the body the scalar getters share: lookup, tag check, then ret = converted,
\* the union member of value the getter reads, converted to the type of ret
ScalarGet(get, ret, vt, converted) ==
  IF get.hr # S_OK THEN Res(RetrievalError, ret, LookupFailed)
  ELSE IF get.value.vt # vt THEN Res(TypeError, ret, TagRejected)
  ELSE Res(StatusOk, converted, Converted)

BoolOf(v) == boolVal(v) = VARIANT_TRUE
GetBool(get, ret) == ScalarGet(get, ret, "VT_BOOL", BoolOf(get.value))

UCharOf(v) == <<bVal(v)>>
GetUChar(get, ret) == ScalarGet(get, ret, "VT_UI1", UCharOf(get.value))

UShortOf(v) == <<uiVal(v)>>
GetUnsignedShort(get, ret) == ScalarGet(get, ret, "VT_UI2", UShortOf(get.value))

\* ret = value.uiVal
UIntOf(v) == ZeroExtend(uiVal(v))
GetUnsignedInt32(get, ret) == ScalarGet(get, ret, "VT_UINT", UIntOf(get.value))

LongOf(v) == lVal(v)
GetLong(get, ret) == ScalarGet(get, ret, "VT_I4", LongOf(get.value))

\* ret = value.lVal
ULongOf(v) == lVal(v)
GetUnsignedLong(get, ret) == ScalarGet(get, ret, "VT_UI4", ULongOf(get.value))

\* ret = value.lVal
LongLongOf(v) == SignExtend(lVal(v))
GetLongLong(get, ret) == ScalarGet(get, ret, "VT_I8", LongLongOf(get.value))

\* ret = value.lVal
ULongLongOf(v) == SignExtend(lVal(v))
GetUnsignedLongLong(get, ret) == ScalarGet(get, ret, "VT_UI8", ULongLongOf(get.value))

\* a GetString that leaves ret alone when it fails
GetStringKeepsOutput(get, ret) ==
  IF get.hr # S_OK THEN Res(RetrievalError, ret, LookupFailed)
  ELSE IF get.value.vt # "VT_BSTR" THEN Res(TypeError, ret, TagRejected)
  ELSE Res(StatusOk, bstrToString(get.value.bstr), Converted)

GetString(get, ret) ==
  IF get.hr # S_OK THEN Res(RetrievalError, "", LookupFailed)
  ELSE IF get.value.vt # "VT_BSTR" THEN Res(TypeError, "", TagRejected)
  ELSE Res(StatusOk, bstrToString(get.value.bstr), Converted)

\* an element count that leaves out the + 1
ArrayCountOffByOne(lbound, ubound) == ubound - lbound

\* long count = ubound - lbound + 1
ArrayCount(lbound, ubound) == ubound - lbound + 1

RECURSIVE CopyElements(_, _, _, _)
\* for (long i = 0; i < count; i++) ret.push_back(bstrToString(pData[i]))
CopyElements(ret, pData, i, count) ==
  IF i < count
    THEN CopyElements(Append(ret, bstrToString(pData[i + 1])), pData, i + 1, count)
    ELSE ret

GetVectorOfStrings(get, ret) ==
  IF get.hr # S_OK THEN Res(RetrievalError, ret, LookupFailed)
  ELSE IF get.value.vt # "VT_ARRAY|VT_BSTR" THEN Res(TypeError, ret, TagRejected)
  ELSE LET lbound == get.value.parray.lbound
           ubound == get.value.parray.ubound
           count == ArrayCount(lbound, ubound)
           pData == get.value.parray.data
       IN  Res(StatusOk, CopyElements(ret, pData, 0, count), Converted)

\* _wtoi64: the number a string of decimal digits denotes
RECURSIVE wtoi64(_, _)
wtoi64(digits, acc) ==
  IF digits = <<>> THEN acc ELSE wtoi64(Tail(digits), acc * 10 + Head(digits))

\* ui.QuadPart = n; ft.dwLowDateTime = ui.LowPart; ft.dwHighDateTime = ui.HighPart
FileTimeOf(n) ==
  [dwLowDateTime |-> <<n % 65536, (n \div 65536) % 65536>>,
   dwHighDateTime |-> <<((n \div 65536) \div 65536) % 65536, 0>>]

\* a body that returns after a failed GetFileTime without dt->Release()
GetDateTimeLeaksHelper(get, ft, env) ==
  IF get.hr # S_OK
    THEN Res(Status(-1, "Error retrieving datetime from WMI query result."), ft,
             LookupFailed)
  ELSE IF get.value.vt # "VT_BSTR"
    THEN Res(Status(-1, "Expected VT_BSTR, got something else."), ft, TagRejected)
  ELSE IF ~SUCCEEDED(env.create)
    THEN Res(Status(-1, "Failed to create SWbemDateTime object."), ft,
             <<"Get", "vt", "VariantClear">>)
  ELSE IF ~SUCCEEDED(env.put)
    THEN Res(Status(-1, "Failed to set SWbemDateTime value."), ft,
             <<"Get", "vt", "dt.create", "read", "dt.put_Value", "VariantClear",
               "dt.Release">>)
  ELSE IF ~SUCCEEDED(env.getft)
    THEN Res(Status(-1, "GetFileTime failed."), ft,
             <<"Get", "vt", "dt.create", "read", "dt.put_Value", "VariantClear",
               "dt.GetFileTime">>)
  ELSE Res(StatusOk, FileTimeOf(wtoi64(env.text, 0)),
           <<"Get", "vt", "dt.create", "read", "dt.put_Value", "VariantClear",
             "dt.GetFileTime", "str.alloc", "str.read", "SysFreeString",
             "dt.Release">>)

\* env: the answers of CoCreateInstance, put_Value and GetFileTime, and the
\* digits of the string GetFileTime renders
GetDateTime(get, ft, env) ==
  IF get.hr # S_OK
    THEN Res(Status(-1, "Error retrieving datetime from WMI query result."), ft,
             LookupFailed)
  ELSE IF get.value.vt # "VT_BSTR"
    THEN Res(Status(-1, "Expected VT_BSTR, got something else."), ft, TagRejected)
  ELSE IF ~SUCCEEDED(env.create)
    THEN Res(Status(-1, "Failed to create SWbemDateTime object."), ft,
             <<"Get", "vt", "VariantClear">>)
  ELSE IF ~SUCCEEDED(env.put)
    THEN Res(Status(-1, "Failed to set SWbemDateTime value."), ft,
             <<"Get", "vt", "dt.create", "read", "dt.put_Value", "VariantClear",
               "dt.Release">>)
  ELSE IF ~SUCCEEDED(env.getft)
    THEN Res(Status(-1, "GetFileTime failed."), ft,
             <<"Get", "vt", "dt.create", "read", "dt.put_Value", "VariantClear",
               "dt.GetFileTime", "dt.Release">>)
  ELSE Res(StatusOk, FileTimeOf(wtoi64(env.text, 0)),
           <<"Get", "vt", "dt.create", "read", "dt.put_Value", "VariantClear",
             "dt.GetFileTime", "str.alloc", "str.read", "SysFreeString",
             "dt.Release">>)

Getters ==
  {"GetBool", "GetUChar", "GetUnsignedShort", "GetUnsignedInt32", "GetLong",
   "GetUnsignedLong", "GetLongLong", "GetUnsignedLongLong", "GetString",
   "GetVectorOfStrings", "GetDateTime"}

\* the tag each getter compares value.vt with
ExpectedTag(g) ==
  CASE g = "GetBool" -> "VT_BOOL"
    [] g = "GetUChar" -> "VT_UI1"
    [] g = "GetUnsignedShort" -> "VT_UI2"
    [] g = "GetUnsignedInt32" -> "VT_UINT"
    [] g = "GetLong" -> "VT_I4"
    [] g = "GetUnsignedLong" -> "VT_UI4"
    [] g = "GetLongLong" -> "VT_I8"
    [] g = "GetUnsignedLongLong" -> "VT_UI8"
    [] g = "GetString" -> "VT_BSTR"
    [] g = "GetVectorOfStrings" -> "VT_ARRAY|VT_BSTR"
    [] g = "GetDateTime" -> "VT_BSTR"

NoEnv == [create |-> S_OK, put |-> S_OK, getft |-> S_OK, text |-> <<>>, is_local |-> FALSE]

\* the answers of the SWbemDateTime helper, which only GetDateTime creates, and
\* only for a VT_BSTR value; a call after the first failed one is never made,
\* and the rendered text exists only when GetFileTime succeeded
DtEnvs(g, get) ==
  IF g = "GetDateTime" /\ get.hr = S_OK /\ get.value.vt = "VT_BSTR"
    THEN {[NoEnv EXCEPT !.create = E_FAIL], [NoEnv EXCEPT !.put = E_FAIL],
          [NoEnv EXCEPT !.getft = E_FAIL]}
           \cup {[NoEnv EXCEPT !.text = t, !.is_local = l] :
                   t \in {<<0>>, <<1, 3, 1, 0, 7, 3>>}, l \in BOOLEAN}
    ELSE {NoEnv}

\* the values the caller's output variable can hold before the call
RetInputs(g) ==
  CASE g = "GetBool" -> BOOLEAN
    [] g \in {"GetUChar", "GetUnsignedShort"} -> {<<0>>, <<7>>}
    [] g \in {"GetUnsignedInt32", "GetLong", "GetUnsignedLong"} -> {<<0, 0>>, <<7, 7>>}
    [] g \in {"GetLongLong", "GetUnsignedLongLong"} -> {ZeroRaw, <<7, 7, 7, 7>>}
    [] g = "GetString" -> {"", "old"}
    [] g = "GetVectorOfStrings" -> {<<>>, <<"old">>}
    [] g = "GetDateTime" -> {FileTimeOf(0), FileTimeOf(7)}

Apply(g, get, ret, env) ==
  CASE g = "GetBool" -> GetBool(get, ret)
    [] g = "GetUChar" -> GetUChar(get, ret)
    [] g = "GetUnsignedShort" -> GetUnsignedShort(get, ret)
    [] g = "GetUnsignedInt32" -> GetUnsignedInt32(get, ret)
    [] g = "GetLong" -> GetLong(get, ret)
    [] g = "GetUnsignedLong" -> GetUnsignedLong(get, ret)
    [] g = "GetLongLong" -> GetLongLong(get, ret)
    [] g = "GetUnsignedLongLong" -> GetUnsignedLongLong(get, ret)
    [] g = "GetString" -> GetString(get, ret)
    [] g = "GetVectorOfStrings" -> GetVectorOfStrings(get, ret)
    [] g = "GetDateTime" -> GetDateTime(get, ret, env)

\* no getter call is on record
NoCall ==
  [getter |-> "none", item |-> 0, handle |-> Null,
   get |-> [hr |-> E_FAIL, value |-> Uninit], before |-> FALSE, env |-> NoEnv,
   outcome |-> "none", res |-> Res(StatusOk, FALSE, <<>>)]

\* the record of a getter call that returned
Returned(g, i, get, ret, env) ==
  [getter |-> g, item |-> i, handle |-> items[i].result_, get |-> get,
   before |-> ret, env |-> env, outcome |-> "returned", res |-> Apply(g, get, ret, env)]

\* the Release() calls a getter made on the object obj of its item
ReleasesIn(ops, obj) == [k \in 1..CountIn(ops, "Release") |-> obj]

\* a getter is called on an item that holds an object; the getters are const
\* member functions, result_ is not theirs to assign
Call(i, g) ==
  /\ Idle
  /\ call.getter = "none"
  /\ items[i].st = "live"
  /\ items[i].result_ # Null
  /\ \E get \in GetOutcomes, ret \in RetInputs(g) :
       \E env \in DtEnvs(g, get) :
         /\ call' = Returned(g, i, get, ret, env)
         /\ released' = Released(ReleasesIn(Apply(g, get, ret, env).ops, items[i].result_))
  /\ UNCHANGED <<req, hist, ctor, pc, hr, items, acquired, crashed>>

\* a getter is called on an item whose result_ is nullptr: result_->Get(...) is
\* a call through a null pointer, which is undefined; the process is stopped by
\* the access violation
CallOnNullCrashes(i, g) ==
  /\ Idle
  /\ call.getter = "none"
  /\ items[i].st = "live"
  /\ items[i].result_ = Null
  /\ \E ret \in RetInputs(g) :
       call' = [getter |-> g, item |-> i, handle |-> Null,
                get |-> [hr |-> E_FAIL, value |-> Uninit], before |-> ret,
                env |-> NoEnv, outcome |-> "crash", res |-> Res(StatusOk, ret, <<>>)]
  /\ crashed' = TRUE
  /\ UNCHANGED <<req, hist, ctor, pc, hr, items, acquired, released>>

\* ... or the call through the null pointer goes on with whatever it finds
CallOnNullContinues(i, g) ==
  /\ Idle
  /\ call.getter = "none"
  /\ items[i].st = "live"
  /\ items[i].result_ = Null
  /\ \E get \in GetOutcomes, ret \in RetInputs(g) :
       \E env \in DtEnvs(g, get) : call' = Returned(g, i, get, ret, env)
  /\ UNCHANGED <<req, hist, ctor, pc, hr, items, acquired, released, crashed>>

\* the caller has read the status and the output of the call that returned
Consume ==
  /\ Idle
  /\ call.getter # "none"
  /\ call' = NoCall
  /\ UNCHANGED <<req, hist, ctor, pc, hr, items, acquired, released, crashed>>

(* --------------------------- specification ----------------------------- *)

Init ==
  /\ req = [r \in Req |-> Unborn]
  /\ hist = [r \in Req |-> NoHist]
  /\ ctor = 0
  /\ pc = "Idle"
  /\ hr = S_OK
  /\ items = [i \in Item |-> NoItem]
  /\ acquired = {}
  /\ released = [o \in Objects |-> 0]
  /\ call = NoCall
  /\ crashed = FALSE

Next ==
  \/ \E r \in Req : Construct(r)
  \/ SecurityInit
  \/ Connect
  \/ Bind
  \/ Execute
  \/ Pull
  \/ Finish
  \/ Return
  \/ \E d, s \in Req : MoveConstruct(d, s)
  \/ \E r \in Req : Destroy(r)

Spec == Init /\ [][Next]_vars

\* a step of the constructor that is running
CtorStep == SecurityInit \/ Connect \/ Bind \/ Execute \/ Pull \/ Finish \/ Return

\* the constructor runs on one thread and every call it makes returns: a
\* constructor that has a next statement executes it
SpecLive == Init /\ [][Next]_vars /\ WF_vars(CtorStep)

\* WmiResultItem objects of their own: construction, move, destruction, getters
NextItem ==
  \/ \E i \in Item : ItemNew(i)
  \/ \E d, s \in Item : ItemMove(d, s)
  \/ \E i \in Item : ItemDestroy(i)
  \/ \E i \in Item, g \in Getters : Call(i, g)
  \/ \E i \in Item, g \in Getters : CallOnNullCrashes(i, g)
  \/ \E i \in Item, g \in Getters : CallOnNullContinues(i, g)
  \/ Consume

SpecItem == Init /\ [][NextItem]_vars

(* ------------------------- properties: WmiRequest ---------------------- *)

\* r was built by WmiRequest(query, nspace) and its constructor has ended
Built(r) == req[r].st = "live" /\ hist[r].from = 0

\* the stage ran in r's constructor and did not answer S_OK
FailedAt(r, stage) ==
  \E k \in 1..Len(hist[r].stages) :
    hist[r].stages[k][1] = stage /\ hist[r].stages[k][2] # S_OK

SetupFailed(r) == FailedAt(r, "Connect") \/ FailedAt(r, "Bind") \/ FailedAt(r, "Execute")

ResultHandles(results) == [k \in 1..Len(results) |-> results[k].result_]

RECURSIVE YieldedObjects(_)
\* the objects of the pulls that answered a success code with a count above zero
YieldedObjects(pulled) ==
  IF pulled = <<>> THEN <<>>
  ELSE (IF Head(pulled).hr >= 0 /\ Head(pulled).count > 0
          THEN <<Head(pulled).obj>> ELSE <<>>)
       \o YieldedObjects(Tail(pulled))

AllDestroyed ==
  /\ ctor = 0
  /\ \A r \in Req : req[r].st \in {"unborn", "dead"}
  /\ \A i \in Item : items[i].st \in {"unborn", "dead"}

\* C1: no external reference is released twice or without having been acquired,
\* and once every wrapper has been destroyed every acquired reference has been
\* released exactly once.
C1_ReleasedExactlyOnce ==
  /\ \A o \in Objects : released[o] <= 1 /\ (released[o] > 0 => o \in acquired)
  /\ AllDestroyed => \A o \in acquired : released[o] = 1

\* a request that collected two objects before a pull failed was moved, and
\* source and destination have both been destroyed
C1_Witness ==
  /\ AllDestroyed
  /\ \E r \in Req :
       /\ hist[r].moved
       /\ {LocatorOf(r), ServiceOf(r), EnumOf(r), ObjectOf(r, 1), ObjectOf(r, 2)}
            \subseteq acquired
       /\ hist[r].pulled[Len(hist[r].pulled)].hr = E_FAIL

\* C2: a request whose CoCreateInstance, ConnectServer or ExecQuery failed has no
\* results, a status with a nonzero code, and no enum_->Next call was made.
C2_SetupFailureLeavesNothing ==
  \A r \in Req :
    (hist[r].from = 0 /\ req[r].st \in {"live", "dead"} /\ SetupFailed(r)) =>
      /\ req[r].results_ = <<>>
      /\ req[r].status_.code # 0
      /\ hist[r].pulled = <<>>

C2_Witness == \E r \in Req : Built(r) /\ FailedAt(r, "Connect")

StageNames == <<"SecurityInit", "Connect", "Bind", "Execute", "Drain">>

\* C3: the stages run in the order SecurityInit, Connect, Bind, Execute, Drain;
\* Bind, Execute and Drain run only after the stage before them answered S_OK;
\* a pull is made only in Drain; and when construction ends after a failed
\* stage, the handle of that stage and of every later stage is null.
C3_StagesInOrderAndGated ==
  \A r \in Req :
    LET sg == hist[r].stages
    IN  /\ Len(sg) <= Len(StageNames)
        /\ \A k \in 1..Len(sg) : sg[k][1] = StageNames[k]
        /\ \A k \in 3..Len(sg) : sg[k - 1][2] = S_OK
        /\ hist[r].pulled # <<>> => Len(sg) = Len(StageNames)
        /\ Built(r) =>
             /\ FailedAt(r, "Connect") =>
                  req[r].locator_ = Null /\ req[r].services_ = Null /\ req[r].enum_ = Null
             /\ FailedAt(r, "Bind") => req[r].services_ = Null /\ req[r].enum_ = Null
             /\ FailedAt(r, "Execute") => req[r].enum_ = Null

C3_Witness ==
  \E r \in Req : Built(r) /\ FailedAt(r, "Bind") /\ req[r].locator_ = LocatorOf(r)

\* C4: when the enumerator yielded K > 0 objects and then a pull failed, the
\* request holds exactly those K objects and its status is success.
C4_PartialDrainKept ==
  \A r \in Req :
    LET pulled == hist[r].pulled
        K == Len(YieldedObjects(pulled))
    IN  (Built(r) /\ K > 0 /\ pulled[Len(pulled)].hr < 0) =>
          /\ Len(req[r].results_) = K
          /\ ResultHandles(req[r].results_) = YieldedObjects(pulled)
          /\ req[r].status_.code = 0

C4_Witness ==
  \E r \in Req :
    /\ Built(r)
    /\ Len(req[r].results_) = 2
    /\ hist[r].pulled[Len(hist[r].pulled)].hr = E_FAIL

\* C5: after construction the result sequence is, in order and without
\* duplicates, the objects of the pulls that succeeded with a count above zero.
C5_ResultsAreYieldedInOrder ==
  \A r \in Req :
    Built(r) =>
      /\ ResultHandles(req[r].results_) = YieldedObjects(hist[r].pulled)
      /\ \A j, k \in 1..Len(req[r].results_) :
           j # k => req[r].results_[j] # req[r].results_[k]

\* two objects were delivered, with a pull that delivered nothing between them
C5_Witness ==
  \E r \in Req :
    /\ Built(r)
    /\ Len(hist[r].pulled) = 3
    /\ hist[r].pulled[2].count = 0
    /\ ResultHandles(req[r].results_) = <<ObjectOf(r, 1), ObjectOf(r, 3)>>

\* C11: a request move-constructed from a source that held results has, right
\* after the move and until it is destroyed, the result sequence and the status
\* the source had before the move.
C11_MoveCarriesResultsAndStatus ==
  \A d \in Req :
    (req[d].st = "live" /\ hist[d].from # 0 /\ hist[d].given.results_ # <<>>) =>
      /\ req[d].results_ = hist[d].given.results_
      /\ req[d].status_ = hist[d].given.status_

NonNull(h) == h # Null

\* C15: the Release() calls of a request's destructor are first one call for
\* each element of the result sequence it held, and then one call each for the
\* enumerator, the service and the locator, in that order, leaving out the
\* handles that were null.
C15_DestructorOrder ==
  \A r \in Req :
    req[r].st = "dead" =>
      LET last == hist[r].last
          dtor == hist[r].dtor
          n == Len(last.results_)
          handles == SelectSeq(<<last.enum_, last.services_, last.locator_>>, NonNull)
      IN  /\ Len(dtor) = n + Len(handles)
          /\ \A k \in 1..n : \E j \in 1..n : dtor[j] = last.results_[k].result_
          /\ SubSeq(dtor, n + 1, Len(dtor)) = handles

\* a request that held two results and all three handles was destroyed
C15_Witness ==
  \E r \in Req :
    /\ req[r].st = "dead"
    /\ Len(hist[r].last.results_) = 2
    /\ Len(hist[r].dtor) = 5
    /\ hist[r].dtor[3] = EnumOf(r)
    /\ hist[r].dtor[5] = LocatorOf(r)

\* the stage ran in r's constructor and answered S_OK
SucceededAt(r, stage) ==
  \E k \in 1..Len(hist[r].stages) :
    hist[r].stages[k][1] = stage /\ hist[r].stages[k][2] = S_OK

\* C16: a constructed request whose CoCreateInstance, ConnectServer and
\* ExecQuery all answered S_OK has the status code 0, whatever the last pull
\* answered and however many results were collected.
C16_SetupSuccessGivesSuccess ==
  \A r \in Req :
    (Built(r) /\ SucceededAt(r, "Connect") /\ SucceededAt(r, "Bind")
       /\ SucceededAt(r, "Execute")) =>
      req[r].status_.code = 0

\* the first pull failed, so that no result was collected
C16_Witness ==
  \E r \in Req :
    /\ Built(r)
    /\ SucceededAt(r, "Execute")
    /\ hist[r].pulled = <<[hr |-> E_FAIL, count |-> 0, obj |-> Null]>>
    /\ req[r].results_ = <<>>
    /\ req[r].status_.code = 0

\* every pull but the last one made answered WBEM_S_NO_ERROR, which is to say
\* that no pull follows another answer; the loop is not left after
\* WBEM_S_NO_ERROR; and the results are the objects of the pulls that delivered
\* one, so that a pull answering WBEM_S_NO_ERROR with no object appends nothing
DrainSafety ==
  \A r \in Req :
    LET pulled == hist[r].pulled
    IN  /\ \A k \in 1..(Len(pulled) - 1) : pulled[k].hr = WBEM_S_NO_ERROR
        /\ (Built(r) /\ SucceededAt(r, "Execute")) =>
             pulled # <<>> /\ pulled[Len(pulled)].hr # WBEM_S_NO_ERROR
        /\ (ctor = r \/ Built(r)) =>
             ResultHandles(req[r].results_) = YieldedObjects(pulled)

\* C18: a pull is made only while the pull before it answered WBEM_S_NO_ERROR
\* and none is made after another answer; a pull that answers WBEM_S_NO_ERROR
\* with no object appends nothing and the loop goes on; and, the enumerator
\* answering something else after at most MaxPulls pulls, every construction
\* that was begun ends.
C18_DrainStopsAtFirstOtherOutcome ==
  /\ []DrainSafety
  /\ \A r \in Req : (ctor = r) ~> Built(r)

\* the first pull answered WBEM_S_NO_ERROR with no object, the second one ended
\* the loop, and nothing was collected
C18_Witness ==
  \E r \in Req :
    /\ Built(r)
    /\ Len(hist[r].pulled) = 2
    /\ hist[r].pulled[1] = [hr |-> WBEM_S_NO_ERROR, count |-> 0, obj |-> Null]
    /\ req[r].results_ = <<>>

\* C19: whatever CoInitializeSecurity answered, the constructor goes on to
\* CoCreateInstance, and the handles, the results and the status it ends with are
\* those that the answers of CoCreateInstance, ConnectServer, ExecQuery and the
\* pulls determine: each handle is held exactly when its stage and the stages
\* before it answered S_OK, the results are the objects the pulls delivered,
\* and the status is Status(0) when all three stages answered S_OK and the one
\* the object was born with otherwise.
C19_SecurityInitOutcomeIgnored ==
  \A r \in Req :
    Built(r) =>
      LET sg == hist[r].stages
          connected == SucceededAt(r, "Connect")
          bound == connected /\ SucceededAt(r, "Bind")
          executed == bound /\ SucceededAt(r, "Execute")
      IN  /\ Len(sg) >= 2 /\ sg[1][1] = "SecurityInit" /\ sg[2][1] = "Connect"
          /\ ~hist[r].moved =>
               /\ req[r].locator_ = (IF connected THEN LocatorOf(r) ELSE Null)
               /\ req[r].services_ = (IF bound THEN ServiceOf(r) ELSE Null)
               /\ req[r].enum_ = (IF executed THEN EnumOf(r) ELSE Null)
          /\ ResultHandles(req[r].results_) = YieldedObjects(hist[r].pulled)
          /\ req[r].status_ = (IF executed THEN StatusOk ELSE NullRequest.status_)

\* CoInitializeSecurity failed, and the request was built in full and holds a
\* result
C19_Witness ==
  \E r \in Req :
    /\ Built(r)
    /\ hist[r].sec = E_FAIL
    /\ req[r].enum_ = EnumOf(r)
    /\ req[r].results_ # <<>>
    /\ req[r].status_.code = 0

\* C10: a request that was moved from has null locator, service and enumerator
\* handles, and its destructor makes no Release() call.
C10_MovedFromSourceReleasesNothing ==
  \A r \in Req :
    hist[r].moved =>
      /\ req[r].locator_ = Null /\ req[r].services_ = Null /\ req[r].enum_ = Null
      /\ req[r].st = "dead" => hist[r].dtor = <<>>

(* ----------------------- properties: WmiResultItem --------------------- *)

\* C12: move-constructing an item leaves the source's handle null and gives the
\* destination the handle the source held, with no reference acquired or
\* released, so that no two items hold the same object; and destroying an item
\* whose handle is null (a moved-from one) releases nothing.
C12_ItemMoveTransfersReference ==
  [][/\ \A d, s \in Item :
          ItemMove(d, s) =>
            /\ items'[s].result_ = Null
            /\ items'[d].result_ = items[s].result_
            /\ released' = released /\ acquired' = acquired
            /\ \A i, j \in Item :
                 (i # j /\ items'[i].result_ # Null) =>
                   items'[i].result_ # items'[j].result_
     /\ \A i \in Item :
          (ItemDestroy(i) /\ items[i].result_ = Null) => released' = released]_vars

\* an item was moved into another and then destroyed: the other holds its object,
\* which has not been released
C12_Witness ==
  \E d, s \in Item :
    /\ items[s].st = "dead"
    /\ items[d].st = "live"
    /\ items[d].result_ = ItemObjectOf(s)
    /\ released[ItemObjectOf(s)] = 0

\* a getter call is on record and it returned
CallReturned == call.getter # "none" /\ call.outcome = "returned"

\* the property exists and its tag is not the one the getter expects
TagMismatch == call.get.hr = S_OK /\ call.get.value.vt # ExpectedTag(call.getter)

IsRetrievalError(st) ==
  /\ st.code # 0
  /\ st.msg \in {"Error retrieving data from WMI query.",
                 "Error retrieving datetime from WMI query result."}

IsTypeMismatch(st) ==
  /\ st.code # 0
  /\ st.msg \in {"Invalid data type returned.", "Expected VT_BSTR, got something else."}

\* C6: a getter called on an item whose handle is null returns the
\* retrieval-error status.
C6_NullItemGetterFails ==
  (call.getter # "none" /\ call.handle = Null) =>
    call.outcome = "returned" /\ IsRetrievalError(call.res.status)

\* C7 as claimed: on a tag mismatch every getter returns the type-mismatch status
\* and leaves the output parameter as it was.
C7_MismatchLeavesOutput ==
  (CallReturned /\ TagMismatch) =>
    IsTypeMismatch(call.res.status) /\ call.res.ret = call.before

\* C7 as amended: on a tag mismatch every getter returns the type-mismatch status;
\* every getter but GetString leaves the output parameter as it was, and
\* GetString sets it to the empty string.
C7_MismatchLeavesOutputButString ==
  (CallReturned /\ TagMismatch) =>
    /\ IsTypeMismatch(call.res.status)
    /\ call.res.ret = IF call.getter = "GetString" THEN "" ELSE call.before

\* GetBool was called on a 32-bit integer property
C7_Witness ==
  /\ CallReturned
  /\ call.getter = "GetBool"
  /\ call.get.hr = S_OK
  /\ call.get.value.vt = "VT_I4"
  /\ call.before = TRUE

\* GetVectorOfStrings was called on a string array with the bounds lb, ub
ArrayCall(lb, ub) ==
  /\ CallReturned
  /\ call.getter = "GetVectorOfStrings"
  /\ call.get.hr = S_OK
  /\ call.get.value.vt = "VT_ARRAY|VT_BSTR"
  /\ call.get.value.parray.lbound = lb
  /\ call.get.value.parray.ubound = ub

ElementStrings(parray) == [k \in 1..Len(parray.data) |-> parray.data[k].wide]

\* C8 as claimed: on the bound pair (0, 0) GetVectorOfStrings returns success and
\* the output sequence is empty (stated for an output that was empty before the
\* call, so that what the output held plays no part).
C8_BoundsZeroZeroYieldEmpty ==
  (ArrayCall(0, 0) /\ call.before = <<>>) =>
    call.res.status.code = 0 /\ call.res.ret = <<>>

\* C8 as amended: on the bound pair (0, 0) GetVectorOfStrings returns success and
\* appends the array's one element to the output sequence; on the bound pair
\* (0, -1), the array of no elements, it returns success and appends nothing.
C8_BoundsZeroZeroYieldOne ==
  /\ ArrayCall(0, 0) =>
       /\ call.res.status.code = 0
       /\ call.res.ret = Append(call.before, call.get.value.parray.data[1].wide)
  /\ ArrayCall(0, -1) =>
       call.res.status.code = 0 /\ call.res.ret = call.before

C8_Witness == ArrayCall(0, 0) /\ call.before = <<>> /\ call.res.ret = <<"e1">>

\* C9: on the bound pair (0, N-1), N >= 1, GetVectorOfStrings returns success and
\* the output sequence is exactly the N elements of the array, in array order.
C9_OutputIsTheArray ==
  \A n \in 1..MaxLen :
    ArrayCall(0, n - 1) =>
      /\ call.res.status.code = 0
      /\ Len(call.res.ret) = n
      /\ call.res.ret = ElementStrings(call.get.value.parray)

\* a getter was called on an item that holds an object, and it returned
CallOnObject == CallReturned /\ call.handle # Null

\* value is neither inspected nor read after VariantClear(&value)
NoUseAfterClear(ops) ==
  \A j, k \in 1..Len(ops) :
    (ops[j] = "VariantClear" /\ j < k) => ops[k] \notin {"vt", "read", "VariantClear"}

\* C13 as claimed: every return path of every getter, the lookup failure
\* included, calls VariantClear(&value) exactly once, and value is not read
\* after that call.
C13_EveryPathClearsOnce ==
  CallOnObject => call.res.clears = 1 /\ NoUseAfterClear(call.res.ops)

\* C13 as amended: every return path after a lookup that answered S_OK calls
\* VariantClear(&value) exactly once, and value is not read after that call; the
\* return path of a failed lookup, where Get handed out no payload, neither
\* reads nor clears value.
C13_PathsAfterLookupClearOnce ==
  CallOnObject =>
    IF call.get.hr = S_OK
      THEN call.res.clears = 1 /\ NoUseAfterClear(call.res.ops)
      ELSE call.res.ops = <<"Get">>

\* GetDateTime returned after put_Value failed on the helper
C13_Witness ==
  /\ CallOnObject
  /\ call.getter = "GetDateTime"
  /\ call.get.hr = S_OK /\ call.get.value.vt = "VT_BSTR"
  /\ call.env.put = E_FAIL
  /\ call.res.clears = 1

\* GetDateTime was called on a string property, so that it went on to the helper
DateTimeCall ==
  /\ CallOnObject
  /\ call.getter = "GetDateTime"
  /\ call.get.hr = S_OK /\ call.get.value.vt = "VT_BSTR"

\* no event of the set uses comes after the event release
NoneAfter(ops, release, uses) ==
  \A j, k \in 1..Len(ops) : (ops[j] = release /\ j < k) => ops[k] \notin uses

\* C14: in GetDateTime the helper, once created, is released exactly once and
\* not used afterwards; the rendered string, once obtained, is freed exactly once
\* and not read afterwards; and when helper creation, put_Value or GetFileTime
\* fails the call returns a failure status having cleared the payload once,
\* released the helper if it was created, and obtained no string.
C14_DateTimeReleasesHelperAndString ==
  DateTimeCall =>
    LET res == call.res
        failed == call.env.create # S_OK \/ call.env.put # S_OK \/ call.env.getft # S_OK
    IN  /\ res.helper = (IF call.env.create = S_OK THEN 1 ELSE 0)
        /\ res.helperRel = res.helper
        /\ NoneAfter(res.ops, "dt.Release",
                     {"dt.put_Value", "dt.GetFileTime", "dt.Release"})
        /\ res.bstrs = (IF failed THEN 0 ELSE 1)
        /\ res.bstrFree = res.bstrs
        /\ NoneAfter(res.ops, "SysFreeString", {"str.read", "SysFreeString"})
        /\ res.clears = 1
        /\ failed <=> res.status.code # 0

\* GetFileTime failed on a helper that had accepted the value
C14_Witness ==
  /\ DateTimeCall
  /\ call.env.getft = E_FAIL
  /\ call.res.helperRel = 1
  /\ call.res.status.code # 0

IntegerGetters ==
  {"GetUChar", "GetUnsignedShort", "GetUnsignedInt32", "GetLong", "GetUnsignedLong",
   "GetLongLong", "GetUnsignedLongLong"}

\* the value a VARIANT holds under its tag, as 16-bit words, lowest first: one
\* byte for VT_UI1, one word for VT_UI2, two for the 32-bit tags, four for the
\* 64-bit tags
TaggedValue(v) ==
  CASE v.vt = "VT_UI1" -> <<v.raw[1] % 256>>
    [] v.vt = "VT_UI2" -> <<v.raw[1]>>
    [] v.vt \in {"VT_UINT", "VT_I4", "VT_UI4"} -> <<v.raw[1], v.raw[2]>>
    [] v.vt \in {"VT_I8", "VT_UI8"} -> v.raw

\* C17: when an integer getter returns success, the output is the value the
\* property holds under its tag, all bits of it: 64 bits for GetLongLong and
\* GetUnsignedLongLong, 32 bits for GetUnsignedInt32, GetLong and
\* GetUnsignedLong.
C17_IntegerGettersKeepFullRange ==
  (CallOnObject /\ call.getter \in IntegerGetters /\ call.res.status.code = 0) =>
    call.res.ret = TaggedValue(call.get.value)

\* C20: a getter call on an item that holds an object, whether it succeeds or
\* fails, leaves every item with the handle it had and every object with the
\* reference count it had, and what it returns is determined by the getter, the
\* property it finds and the output it is given, not by any call made before.
C20_GettersLeaveItemUnchanged ==
  [][(call.getter = "none" /\ call'.getter # "none" /\ call'.handle # Null) =>
       /\ items' = items
       /\ released' = released
       /\ acquired' = acquired
       /\ call'.handle = items[call'.item].result_
       /\ call'.res = Apply(call'.getter, call'.get, call'.before, call'.env)]_vars

\* a getter failed on an item that holds an object: the item still holds it and
\* it has not been released
C20_Witness ==
  /\ CallOnObject
  /\ call.res.status.code # 0
  /\ items[call.item].st = "live"
  /\ items[call.item].result_ = call.handle
  /\ released[call.handle] = 0

====
